---- MODULE Spec2Model ----
(***************************************************************************)
(* Model of create_history_aware_retriever                                 *)
(* (libs/langchain/langchain/chains/history_aware_retriever.py).           *)
(*                                                                         *)
(* The function validates the prompt's input variables and returns a       *)
(* RunnableBranch of three (condition, runnable) pairs and a default.      *)
(* An invocation evaluates the conditions in order on the turn input x,    *)
(* then runs the stages of the selected runnable one after the other.      *)
(*                                                                         *)
(* Python values are tagged records: t is the Python type of the value.    *)
(* A missing dict key is the value Absent.                                 *)
(***************************************************************************)
EXTENDS Integers, Sequences, FiniteSets, TLC

VARIABLES buildState, input_vars, status, turn, branch, pos, val, trace, err

vars == <<buildState, input_vars, status, turn, branch, pos, val, trace, err>>

(* ---- bounds ---- *)
MaxMsgs == 2
NumInvocations == 2

Invocations == 1..NumInvocations

(* ---- Python values ---- *)
Absent == [t |-> "absent"]
NoValue == [t |-> "none"]
Str(s) == [t |-> "str", s |-> s]
List(items) == [t |-> "list", items |-> items]
Msg(role, content) == [t |-> "msg", role |-> role, content |-> Str(content)]

Messages == {Msg("user", "c1"), Msg("assistant", "c2")}
NonMessages == {Str("s")}
Elements == Messages \cup NonMessages

SeqsUpTo(S, n) == UNION {[1..k -> S] : k \in 0..n}

InputValues == {Absent, Str("q")}
ChatHistoryValues ==
    {Absent, Str(""), List(<<>>), Str("h"), List(<<Str("h")>>)}
MessagesValues ==
    {Absent, Str("notalist")} \cup {List(s) : s \in SeqsUpTo(Elements, MaxMsgs)}

Turns == [input : InputValues,
          chat_history : ChatHistoryValues,
          messages : MessagesValues]

(* Turn inputs used when several invocations are interleaved: one or two    *)
(* of every shape the branch conditions distinguish.                        *)
ConcTurns ==
    {x \in Turns :
        /\ x.input = Str("q")
        /\ x.chat_history \in {Absent, List(<<Str("h")>>)}
        /\ x.messages \in {Absent,
                           List(<<Msg("user", "c1")>>),
                           List(<<Str("s")>>),
                           List(<<Msg("user", "c1"), Msg("assistant", "c2")>>)}}

PromptVariableNames == {"input", "messages", "chat_history", "topic"}

(* Prompt templates used when several invocations are interleaved *)
ConcPrompts == {{"input", "chat_history"}, {"messages"}, {"topic"}}

(* dict.get(key, default) *)
Get(x, key, default) == IF x[key] = Absent THEN default ELSE x[key]

(* Python truthiness of the values chat_history can take *)
Truthy(v) ==
    CASE v.t = "bool" -> v.b
      [] v.t = "str" -> v.s /= ""
      [] v.t = "list" -> Len(v.items) > 0
      [] OTHER -> FALSE

PyFalse == [t |-> "bool", b |-> FALSE]

(* ---- construction-time validation (lines 54-59) ---- *)
PromptRejected_eitherMissing(ivars) ==
    "input" \notin ivars \/ "messages" \notin ivars

PromptRejected(ivars) == "input" \notin ivars /\ "messages" \notin ivars

(* ---- the classifier (lines 61-66) ---- *)
messages_param_is_message_list_anyElements(x) ==
    LET m == Get(x, "messages", List(<<>>)) IN
    /\ m.t = "list"
    /\ Len(m.items) > 0

messages_param_is_message_list(x) ==
    LET m == Get(x, "messages", List(<<>>)) IN
    /\ m.t = "list"
    /\ Len(m.items) > 0
    /\ \A k \in 1..Len(m.items) : m.items[k].t = "msg"

MessagesLen(x) == Len(Get(x, "messages", List(<<>>)).items)

(* ---- the branch conditions (lines 70-71, 75-76, 81) ---- *)
hasMultiTurnMessages_moreThanTwo(x) ==
    messages_param_is_message_list(x) /\ MessagesLen(x) > 2

hasMultiTurnMessages(x) ==
    messages_param_is_message_list(x) /\ MessagesLen(x) > 1

hasSingleTurnMessages_atLeastOne(x) ==
    messages_param_is_message_list(x) /\ MessagesLen(x) >= 1

hasSingleTurnMessages(x) ==
    messages_param_is_message_list(x) /\ MessagesLen(x) = 1

hasEmptyLegacyHistory_absentOnly(x) == x.chat_history = Absent

hasEmptyLegacyHistory(x) == ~Truthy(Get(x, "chat_history", PyFalse))

BranchCondition(b, x) ==
    CASE b = 1 -> hasMultiTurnMessages(x)
      [] b = 2 -> hasSingleTurnMessages(x)
      [] b = 3 -> hasEmptyLegacyHistory(x)
      [] OTHER -> TRUE

(* a router that keeps the invocation in progress in shared state and      *)
(* takes the default branch while another invocation is running            *)
SelectBranch_sharedState(x) ==
    IF \E j \in Invocations : status[j] = "running"
    THEN 4
    ELSE CHOOSE b \in 1..4 :
            /\ BranchCondition(b, x)
            /\ \A c \in 1..(b - 1) : ~BranchCondition(c, x)

(* RunnableBranch: the first branch whose condition holds, else the default *)
SelectBranch(x) ==
    CHOOSE b \in 1..4 :
        /\ BranchCondition(b, x)
        /\ \A c \in 1..(b - 1) : ~BranchCondition(c, x)

(* ---- the runnable of each branch (lines 72, 77, 83, 86) ---- *)
Pipeline_legacyPassthrough(b) ==
    IF b = 1
    THEN <<"prompt", "llm", "parser", "retriever">>
    ELSE <<"extract", "retriever">>

Pipeline_alsoDefault(b) ==
    IF b \in {1, 4}
    THEN <<"prompt", "llm", "parser", "retriever">>
    ELSE <<"extract", "retriever", "prompt", "llm", "parser", "retriever">>

Pipeline(b) ==
    IF b \in {1, 4}
    THEN <<"prompt", "llm", "parser", "retriever">>
    ELSE <<"extract", "retriever">>

Collaborators == {"prompt", "llm", "parser", "retriever"}

(* ---- the collaborators ---- *)
PromptRender(x) ==
    [t |-> "prompt_value",
     vars |-> [k \in (input_vars \cap DOMAIN x) |-> x[k]]]

LLM(p) == [t |-> "ai_message", content |-> [t |-> "str_rewritten", of |-> p]]

StrOutputParser(o) == o.content

Retriever(q) == [t |-> "documents", for |-> q]

(* ---- the passthrough lambdas (lines 77 and 83) ---- *)
(* x["input"] raises KeyError on a missing key; .content raises             *)
(* AttributeError on a value that is not a message.                         *)
ExtractRaises(b, x) ==
    IF b = 2
    THEN x.messages.items[Len(x.messages.items)].t /= "msg"
    ELSE x.input = Absent

Extract_input(b, x) == x.input

Extract(b, x) ==
    IF b = 2
    THEN x.messages.items[Len(x.messages.items)].content
    ELSE x.input

(* the value a stage returns for the argument v *)
StageOutput(stage, b, v) ==
    CASE stage = "prompt" -> PromptRender(v)
      [] stage = "llm" -> LLM(v)
      [] stage = "parser" -> StrOutputParser(v)
      [] stage = "extract" -> Extract(b, v)
      [] OTHER -> Retriever(v)

(* A stage may raise: a collaborator for its own reasons, a passthrough     *)
(* lambda exactly when the key it reads is missing.                         *)
StageMayRaise(stage, b, v) ==
    IF stage = "extract" THEN ExtractRaises(b, v) ELSE TRUE

StageMayReturn(stage, b, v) ==
    IF stage = "extract" THEN ~ExtractRaises(b, v) ELSE TRUE

(* Nothing in lines 68-87 catches, retries or falls back: an exception      *)
(* raised by a stage ends the invocation.                                   *)
StatusAfterRaise_retry(stage) == "running"

StatusAfterRaise(stage) == "error"

(* ---- state ---- *)
Init ==
    /\ buildState = "none"
    /\ input_vars = {}
    /\ status = [i \in Invocations |-> "idle"]
    /\ turn = [i \in Invocations |-> NoValue]
    /\ branch = [i \in Invocations |-> 0]
    /\ pos = [i \in Invocations |-> 0]
    /\ val = [i \in Invocations |-> NoValue]
    /\ trace = [i \in Invocations |-> <<>>]
    /\ err = [i \in Invocations |-> "none"]

(* create_history_aware_retriever(llm, retriever, prompt) *)
Build(ivars) ==
    /\ buildState = "none"
    /\ input_vars' = ivars
    /\ buildState' = IF PromptRejected(ivars) THEN "ValueError" ELSE "built"
    /\ UNCHANGED <<status, turn, branch, pos, val, trace, err>>

(* retrieve_documents.invoke(x): the conditions are evaluated in order and  *)
(* the runnable of the selected branch is entered.                          *)
Invoke(i, x) ==
    /\ buildState = "built"
    /\ status[i] \in {"idle", "done", "error"}
    /\ status' = [status EXCEPT ![i] = "running"]
    /\ turn' = [turn EXCEPT ![i] = x]
    /\ branch' = [branch EXCEPT ![i] = SelectBranch(x)]
    /\ pos' = [pos EXCEPT ![i] = 1]
    /\ val' = [val EXCEPT ![i] = x]
    /\ trace' = [trace EXCEPT ![i] = <<>>]
    /\ err' = [err EXCEPT ![i] = "none"]
    /\ UNCHANGED <<buildState, input_vars>>

CurrentStage(i) == Pipeline(branch[i])[pos[i]]

(* the current stage of invocation i is called and returns *)
StageReturns(i) ==
    /\ status[i] = "running"
    /\ LET stage == CurrentStage(i)
           out == StageOutput(stage, branch[i], val[i])
           last == pos[i] = Len(Pipeline(branch[i]))
       IN /\ StageMayReturn(stage, branch[i], val[i])
          /\ trace' = [trace EXCEPT ![i] =
                          Append(@, [stage |-> stage, arg |-> val[i]])]
          /\ val' = [val EXCEPT ![i] = out]
          /\ pos' = [pos EXCEPT ![i] = IF last THEN @ ELSE @ + 1]
          /\ status' = [status EXCEPT ![i] = IF last THEN "done" ELSE @]
    /\ UNCHANGED <<buildState, input_vars, turn, branch, err>>

(* the current stage of invocation i is called and raises *)
StageRaises(i) ==
    /\ status[i] = "running"
    /\ LET stage == CurrentStage(i)
       IN /\ StageMayRaise(stage, branch[i], val[i])
          /\ trace' = [trace EXCEPT ![i] =
                          Append(@, [stage |-> stage, arg |-> val[i]])]
          /\ val' = [val EXCEPT ![i] = NoValue]
          /\ status' = [status EXCEPT ![i] = StatusAfterRaise(stage)]
          /\ err' = [err EXCEPT ![i] = stage]
    /\ UNCHANGED <<buildState, input_vars, turn, branch, pos>>

(* one router, one invocation at a time, every turn input *)
Next ==
    \/ \E ivars \in SUBSET PromptVariableNames : Build(ivars)
    \/ \E x \in Turns : Invoke(1, x)
    \/ StageReturns(1)
    \/ StageRaises(1)

Spec == Init /\ [][Next]_vars

(* one router, interleaved invocations *)
NextConc ==
    \/ \E ivars \in ConcPrompts : Build(ivars)
    \/ \E i \in Invocations, x \in ConcTurns : Invoke(i, x)
    \/ \E i \in Invocations : StageReturns(i)
    \/ \E i \in Invocations : StageRaises(i)

SpecConc == Init /\ [][NextConc]_vars

TypeOK ==
    /\ buildState \in {"none", "built", "ValueError"}
    /\ input_vars \subseteq PromptVariableNames
    /\ \A i \in Invocations :
        /\ status[i] \in {"idle", "running", "done", "error"}
        /\ branch[i] \in 0..4
        /\ err[i] \in {"none", "extract"} \cup Collaborators
        /\ status[i] = "idle" <=> branch[i] = 0

(* ---- vocabulary of the properties ---- *)
Started(i) == status[i] /= "idle"

Stages(i) == [k \in 1..Len(trace[i]) |-> trace[i][k].stage]

Calls(i, stage) ==
    Cardinality({k \in 1..Len(trace[i]) : trace[i][k].stage = stage})

ArgsOf(i, stage) ==
    {trace[i][k].arg : k \in {n \in 1..Len(trace[i]) : trace[i][n].stage = stage}}

IsPrefix(s, t) ==
    /\ Len(s) <= Len(t)
    /\ \A k \in 1..Len(s) : s[k] = t[k]

RewriteStages == <<"prompt", "llm", "parser", "retriever">>
PassthroughStages == <<"extract", "retriever">>

(* the string the rewrite pipeline produces from the turn x *)
Rewritten(x) == StrOutputParser(LLM(PromptRender(x)))

IsListOfMessages(m) ==
    /\ m.t = "list"
    /\ \A k \in 1..Len(m.items) : m.items[k] \in Messages

MessagesAbsentOrEmpty(x) == x.messages \in {Absent, List(<<>>)}

EmptyHistoryForms == {Absent, Str(""), List(<<>>)}

(* a turn from which a query can be resolved: it carries an input, a       *)
(* non-empty chat_history or a non-empty list of messages                  *)
Resolvable(x) ==
    \/ x.input /= Absent
    \/ x.chat_history \notin EmptyHistoryForms
    \/ (IsListOfMessages(x.messages) /\ Len(x.messages.items) > 0)

(* an invocation that ran the rewrite pipeline on its whole turn *)
RanRewrite(i) ==
    /\ IsPrefix(Stages(i), RewriteStages)
    /\ ArgsOf(i, "prompt") \subseteq {turn[i]}
    /\ ArgsOf(i, "retriever") \subseteq {Rewritten(turn[i])}
    /\ status[i] = "done" =>
          /\ Stages(i) = RewriteStages
          /\ val[i] = Retriever(Rewritten(turn[i]))

(* an invocation that passed the string q to the retriever unchanged *)
RanPassthrough(i, q) ==
    /\ IsPrefix(Stages(i), PassthroughStages)
    /\ ArgsOf(i, "retriever") \subseteq {q}
    /\ status[i] = "done" =>
          /\ Stages(i) = PassthroughStages
          /\ val[i] = Retriever(q)

C3_EmptyHistoryPassthrough ==
    \A i \in Invocations :
        (/\ Started(i)
         /\ MessagesAbsentOrEmpty(turn[i])
         /\ turn[i].chat_history \in EmptyHistoryForms
         /\ Resolvable(turn[i]))
        => /\ branch[i] = 3
           /\ RanPassthrough(i, turn[i].input)
           /\ Calls(i, "prompt") = 0
           /\ Calls(i, "llm") = 0
           /\ err[i] /= "extract"

C3_Witness ==
    \E i \in Invocations :
        /\ status[i] = "done"
        /\ turn[i].messages = Absent
        /\ turn[i].chat_history = Str("")
        /\ ArgsOf(i, "retriever") = {Str("q")}

(* C4: a turn with absent or empty messages and a non-empty chat_history   *)
(* selects the default branch: the prompt receives the turn (input and     *)
(* chat_history), the retriever the parsed model output, never input.      *)
C4_HistoryRewrites ==
    \A i \in Invocations :
        (/\ Started(i)
         /\ MessagesAbsentOrEmpty(turn[i])
         /\ turn[i].chat_history \notin EmptyHistoryForms)
        => /\ branch[i] = 4
           /\ RanRewrite(i)
           /\ Calls(i, "extract") = 0
           /\ turn[i].input \notin ArgsOf(i, "retriever")

C4_Witness ==
    \E i \in Invocations :
        /\ status[i] = "done"
        /\ turn[i].messages = Absent
        /\ turn[i].chat_history = List(<<Str("h")>>)
        /\ turn[i].input = Str("q")
        /\ input_vars = {"input", "chat_history"}
        /\ ArgsOf(i, "retriever") = {Rewritten(turn[i])}

(* C5: construction raises exactly when the prompt declares neither input  *)
(* nor messages; after the failure there is no router, so no invocation    *)
(* starts and no collaborator is called.                                   *)
C5_BuildValidation ==
    /\ buildState = "ValueError" <=>
          (buildState /= "none" /\ input_vars \cap {"input", "messages"} = {})
    /\ buildState = "built" <=>
          (buildState /= "none" /\ input_vars \cap {"input", "messages"} /= {})
    /\ buildState /= "built" =>
          \A i \in Invocations : status[i] = "idle" /\ trace[i] = <<>>

C5_Witness == buildState = "ValueError" /\ input_vars = {"topic"}

(* ---- malformed messages ---- *)
MalformedMessages(x) ==
    /\ x.messages /= Absent
    /\ ~(IsListOfMessages(x.messages) /\ Len(x.messages.items) > 0)

WithoutMessages(x) == [x EXCEPT !.messages = Absent]

(* the Search Query a completed invocation on the turn x hands over *)
SearchQuery(x) ==
    IF SelectBranch(x) \in {1, 4}
    THEN Rewritten(x)
    ELSE Extract(SelectBranch(x), x)

(* C6 as stated: with an empty, mixed or non-list messages value, the      *)
(* invocation on a resolvable turn selects the same branch and hands the   *)
(* retriever the same Search Query as for the turn without messages, and   *)
(* the router raises no error.                                             *)
C6_Original ==
    \A i \in Invocations :
        (Started(i) /\ MalformedMessages(turn[i]) /\ Resolvable(turn[i]))
        => /\ branch[i] = SelectBranch(WithoutMessages(turn[i]))
           /\ ArgsOf(i, "retriever") \subseteq
                 {SearchQuery(WithoutMessages(turn[i]))}
           /\ err[i] /= "extract"

(* C6 amended: the classifier treats such a value as absent and raises     *)
(* nothing, so the branch is the legacy branch (3 or 4) of the turn        *)
(* without messages.  On branch 3 the retriever receives input unchanged   *)
(* and the only router error is the KeyError for a missing input.  On      *)
(* branch 4 the prompt receives the turn as given, messages included, and  *)
(* the Search Query is that of the turn without messages when the prompt   *)
(* does not declare messages.                                              *)
C6_MalformedFallsThrough ==
    \A i \in Invocations :
        (Started(i) /\ MalformedMessages(turn[i]))
        => /\ branch[i] \in {3, 4}
           /\ branch[i] = SelectBranch(WithoutMessages(turn[i]))
           /\ branch[i] = 3 =>
                 /\ RanPassthrough(i, turn[i].input)
                 /\ err[i] = "extract" <=>
                       (status[i] = "error" /\ turn[i].input = Absent)
           /\ branch[i] = 4 =>
                 /\ RanRewrite(i)
                 /\ err[i] /= "extract"
                 /\ "messages" \notin input_vars =>
                       ArgsOf(i, "retriever") \subseteq
                           {SearchQuery(WithoutMessages(turn[i]))}

C6_Witness ==
    \E i \in Invocations :
        /\ status[i] = "done"
        /\ turn[i].messages = List(<<Msg("user", "c1"), Str("s")>>)
        /\ turn[i].chat_history = Str("h")
        /\ "messages" \in input_vars
        /\ branch[i] = 4
        /\ ArgsOf(i, "retriever") /= {SearchQuery(WithoutMessages(turn[i]))}

(* the highest-priority branch whose condition holds *)
FirstMatch(x) ==
    IF hasMultiTurnMessages(x) THEN 1
    ELSE IF hasSingleTurnMessages(x) THEN 2
    ELSE IF hasEmptyLegacyHistory(x) THEN 3
    ELSE 4

(* C7: a completed invocation ran the stages of exactly one branch, the    *)
(* first whose condition holds: one retriever call with one Search Query,  *)
(* at most one model call, and no stage of another branch.                 *)
C7_ExactlyOneAction ==
    \A i \in Invocations :
        status[i] = "done"
        => /\ branch[i] = FirstMatch(turn[i])
           /\ Stages(i) = Pipeline(branch[i])
           /\ Calls(i, "retriever") = 1
           /\ Cardinality(ArgsOf(i, "retriever")) = 1
           /\ ArgsOf(i, "retriever") = {SearchQuery(turn[i])}
           /\ Calls(i, "llm") <= 1
           /\ Calls(i, "llm") = 1 <=> branch[i] \in {1, 4}
           /\ Calls(i, "extract") = 1 <=> branch[i] \in {2, 3}
           /\ val[i] = Retriever(SearchQuery(turn[i]))

C7_Witness ==
    \E i \in Invocations :
        /\ status[i] = "done"
        /\ hasSingleTurnMessages(turn[i])
        /\ hasEmptyLegacyHistory(turn[i])
        /\ Stages(i) = PassthroughStages

HoldingConditions(x) == {b \in 1..3 : BranchCondition(b, x)}

(* C8 as stated: no turn satisfies two of the three branch conditions.     *)
C8_Original ==
    \A i \in Invocations :
        Started(i) => Cardinality(HoldingConditions(turn[i])) <= 1

(* C8 amended: the two message-list conditions exclude each other, but     *)
(* the empty-history condition holds together with either of them for a    *)
(* turn without chat_history; the fixed order then selects the             *)
(* message-list branch, so still one branch is taken.                      *)
C8_ExclusiveByOrder ==
    \A i \in Invocations :
        Started(i)
        => /\ ~(hasMultiTurnMessages(turn[i]) /\ hasSingleTurnMessages(turn[i]))
           /\ Cardinality(HoldingConditions(turn[i])) <= 2
           /\ Cardinality(HoldingConditions(turn[i])) = 2 =>
                 /\ 3 \in HoldingConditions(turn[i])
                 /\ branch[i] \in HoldingConditions(turn[i]) \ {3}
           /\ branch[i] = FirstMatch(turn[i])

C8_Witness ==
    \E i \in Invocations :
        /\ status[i] = "done"
        /\ HoldingConditions(turn[i]) = {1, 3}
        /\ branch[i] = 1

(* C9: when a collaborator raises, the invocation ends with that error:    *)
(* the failing stage is the last one called, every stage was called at     *)
(* most once, the stages were those of the selected branch in order, the   *)
(* retriever is not called after an earlier failure, and no documents are  *)
(* returned.                                                               *)
C9_ErrorsPropagate ==
    \A i \in Invocations :
        /\ err[i] /= "none" <=> status[i] = "error"
        /\ (status[i] = "error" /\ err[i] \in Collaborators)
           => /\ trace[i] /= <<>>
              /\ trace[i][Len(trace[i])].stage = err[i]
              /\ IsPrefix(Stages(i), Pipeline(branch[i]))
              /\ \A st \in Collaborators \cup {"extract"} : Calls(i, st) <= 1
              /\ err[i] /= "retriever" => Calls(i, "retriever") = 0
              /\ val[i] = NoValue
              /\ branch[i] = FirstMatch(turn[i])

C9_Witness ==
    \E i \in Invocations :
        /\ status[i] = "error"
        /\ err[i] = "llm"
        /\ branch[i] = 4
        /\ Stages(i) = <<"prompt", "llm">>

====
